---- MODULE Spec2Model ----
(***************************************************************************)
(* Model of the DHCPv4 option codec of libs/config/src/wire/v4.rs:         *)
(* Opts::deserialize (write_opt for every entry of the option map, the End *)
(* code, DhcpOptions::decode) and Opts::serialize (to_opt for every        *)
(* canonical entry).                                                       *)
(*                                                                         *)
(* Bytes are integers 0..255, buffers are sequences of bytes.  Texts (hex, *)
(* base64) are sequences of one-character strings.  An Ipv4Addr is the     *)
(* tuple of its four octets.  TLC's integers are 32-bit signed: an i32 is  *)
(* an integer, a u32 is the pair <<high 16 bits, low 16 bits>>, a u16 and  *)
(* a u8 are integers.                                                      *)
(***************************************************************************)
EXTENDS Integers, Sequences, FiniteSets, TLC

VARIABLES
    map,      \* HashMap<u8, Opt> being assembled in this pass
    pending,  \* keys of map the `for (code, opt) in map` loop has not visited
    written,  \* keys visited so far, in iteration order
    buf,      \* the Vec<u8> behind `enc`
    phase,    \* position in deserialize / serialize
    opts,     \* DhcpOptions returned by the decoder (code -> DhcpOption)
    out,      \* HashMap<u8, Opt> collected by Opts::serialize
    prev,     \* DhcpOptions of the previous pass
    pass,     \* number of the current deserialize pass
    rev       \* iteration order taken by nested HashMaps in this pass

vars == <<map, pending, written, buf, phase, opts, out, prev, pass, rev>>

(***************************************************************************)
(* Bounds of the model.                                                    *)
(***************************************************************************)
\* entries of a multi-entry option map
MaxEntries == 2
\* deserialize passes (the second one reloads what serialize produced)
MaxPasses == 2
\* full 255-byte records a long sample payload fills
MaxChunks == 2

(***************************************************************************)
(* Small helpers.                                                          *)
(***************************************************************************)
Min(a, b) == IF a < b THEN a ELSE b

\* Encoder::write_u16: big-endian
write_u16(n) == <<n \div 256, n % 256>>
\* Decoder::read_u16
read_u16(b) == b[1] * 256 + b[2]

\* Encoder::write_u32: big-endian
write_u32(n) == write_u16(n[1]) \o write_u16(n[2])
\* Decoder::read_u32
read_u32(b) == <<read_u16(SubSeq(b, 1, 2)), read_u16(SubSeq(b, 3, 4))>>

\* Encoder::write_i32: the big-endian bytes of the two's complement of n
write_i32(n) ==
    LET m == IF n < 0 THEN (n + 2147483647) + 1 ELSE n
        top == (m \div 16777216) + (IF n < 0 THEN 128 ELSE 0)
    IN  <<top, (m \div 65536) % 256, (m \div 256) % 256, m % 256>>
\* Decoder::read_i32
read_i32(b) ==
    LET m == (b[1] % 128) * 16777216 + b[2] * 65536 + b[3] * 256 + b[4]
    IN  IF b[1] >= 128 THEN (m - 2147483647) - 1 ELSE m

\* u32::from(Ipv4Addr) and Ipv4Addr::from(u32)
ip_to_u32(ip) == <<ip[1] * 256 + ip[2], ip[3] * 256 + ip[4]>>
u32_to_ip(n) == write_u32(n)

\* the concatenation of a sequence of sequences (halving keeps the
\* evaluation shallow)
RECURSIVE Flatten(_)
Flatten(ss) ==
    CASE Len(ss) = 0 -> <<>>
      [] Len(ss) = 1 -> ss[1]
      [] OTHER ->
            LET h == Len(ss) \div 2
            IN  Flatten(SubSeq(ss, 1, h)) \o Flatten(SubSeq(ss, h + 1, Len(ss)))

\* slice.chunks(n): consecutive pieces of n elements, the last one shorter
Chunks(s, n) ==
    [k \in 1..((Len(s) + n - 1) \div n) |->
        SubSeq(s, (k - 1) * n + 1, Min(k * n, Len(s)))]

\* the keys of a HashMap in one of its two modelled iteration orders
RECURSIVE KeysAsc(_)
KeysAsc(S) ==
    IF S = {} THEN <<>>
    ELSE LET m == CHOOSE x \in S : \A y \in S : x <= y
         IN  <<m>> \o KeysAsc(S \ {m})

Reverse(s) == [i \in 1..Len(s) |-> s[Len(s) + 1 - i]]

KeyOrder(S, r) == IF r THEN Reverse(KeysAsc(S)) ELSE KeysAsc(S)

(***************************************************************************)
(* hex::encode / hex::decode.                                              *)
(***************************************************************************)
HexLower == <<"0","1","2","3","4","5","6","7","8","9","a","b","c","d","e","f">>
HexUpper == <<"0","1","2","3","4","5","6","7","8","9","A","B","C","D","E","F">>

IsHexChar(c) == \E i \in 1..16 : HexLower[i] = c \/ HexUpper[i] = c
HexVal(c) == (CHOOSE i \in 1..16 : HexLower[i] = c \/ HexUpper[i] = c) - 1

\* hex::encode: two lower-case digits per byte
hex_encode(bytes) ==
    [i \in 1..(2 * Len(bytes)) |->
        LET b == bytes[(i + 1) \div 2]
        IN  HexLower[(IF i % 2 = 1 THEN b \div 16 ELSE b % 16) + 1]]

\* hex::decode: Err on an odd length or a character that is no hex digit
hex_decode(s) ==
    IF Len(s) % 2 = 1 \/ \E i \in 1..Len(s) : ~IsHexChar(s[i])
    THEN [ok |-> FALSE, bytes |-> <<>>]
    ELSE [ok |-> TRUE,
          bytes |-> [k \in 1..(Len(s) \div 2) |->
                        HexVal(s[2 * k - 1]) * 16 + HexVal(s[2 * k])]]

(***************************************************************************)
(* base64::engine::general_purpose::STANDARD_NO_PAD.decode                 *)
(***************************************************************************)
B64Alphabet ==
    <<"A","B","C","D","E","F","G","H","I","J","K","L","M","N","O","P",
      "Q","R","S","T","U","V","W","X","Y","Z","a","b","c","d","e","f",
      "g","h","i","j","k","l","m","n","o","p","q","r","s","t","u","v",
      "w","x","y","z","0","1","2","3","4","5","6","7","8","9","+","/">>

IsB64Char(c) == \E i \in 1..64 : B64Alphabet[i] = c
B64Val(c) == (CHOOSE i \in 1..64 : B64Alphabet[i] = c) - 1

\* the bytes of one group of 2, 3 or 4 sextets
B64Group(g) ==
    LET v(i) == B64Val(g[i])
    IN  CASE Len(g) = 4 ->
               <<v(1) * 4 + v(2) \div 16,
                 (v(2) % 16) * 16 + v(3) \div 4,
                 (v(3) % 4) * 64 + v(4)>>
          [] Len(g) = 3 ->
               <<v(1) * 4 + v(2) \div 16, (v(2) % 16) * 16 + v(3) \div 4>>
          [] Len(g) = 2 -> <<v(1) * 4 + v(2) \div 16>>

\* Err on a character outside the alphabet (the padding "=" included), on a
\* length of 1 mod 4, and on non-zero trailing bits in the last group
b64_decode(s) ==
    LET n    == Len(s)
        last == SubSeq(s, n - (n % 4) + 1, n)
    IN  IF \/ \E i \in 1..n : ~IsB64Char(s[i])
           \/ n % 4 = 1
           \/ n % 4 = 2 /\ B64Val(last[2]) % 16 # 0
           \/ n % 4 = 3 /\ B64Val(last[3]) % 4 # 0
        THEN [ok |-> FALSE, bytes |-> <<>>]
        ELSE [ok |-> TRUE,
              bytes |-> Flatten([k \in 1..((n + 3) \div 4) |->
                           B64Group(SubSeq(s, 4 * k - 3, Min(4 * k, n)))])]

(***************************************************************************)
(* dhcproto's long-option writers (RFC 3396), called by write_opt.         *)
(***************************************************************************)
\* u8::MAX, the largest length one record can state
U8Max == 255

\* OptionCode::Pad and OptionCode::End: one-byte records without a length
PadCode == 0

EndCode == 255

\* encode_long_opt_bytes: one record per chunk of up to u8::MAX bytes; an
\* empty slice has no chunk, so nothing is written
encode_long_opt_bytes(code, bytes) ==
    Flatten([k \in 1..Len(Chunks(bytes, U8Max)) |->
        LET chunk == Chunks(bytes, U8Max)[k]
        IN  <<code, Len(chunk)>> \o chunk])

\* encode_long_opt_chunks: records of whole elements, u8::MAX / size of them
\* at most; items[i] is what the element callback writes for element i
encode_long_opt_chunks(code, size, items) ==
    LET max_size == U8Max \div size
    IN  Flatten([k \in 1..Len(Chunks(items, max_size)) |->
            LET chunk == Chunks(items, max_size)[k]
            IN  <<code, (Len(chunk) * size) % 256>> \o Flatten(chunk)])

(***************************************************************************)
(* trust_dns_proto: str::parse::<rr::Name> and Name::emit.  A name is the  *)
(* sequence of its labels, a label a sequence of bytes.                    *)
(***************************************************************************)
MaxLabelLen == 63

name_parse_ok(name) ==
    /\ \A i \in 1..Len(name) : Len(name[i]) \in 1..MaxLabelLen
    /\ Len(Flatten(name)) + Len(name) + 1 <= U8Max

name_emit(name) ==
    Flatten([i \in 1..Len(name) |-> <<Len(name[i])>> \o name[i]]) \o <<0>>

(***************************************************************************)
(* write_opt, one operator per match arm.  The result is                   *)
(* [ok, bytes]: whether Ok(()) was returned and the bytes appended to      *)
(* `enc` before returning.                                                 *)
(***************************************************************************)
Ok(bytes) == [ok |-> TRUE, bytes |-> bytes]
Err(bytes) == [ok |-> FALSE, bytes |-> bytes]

\* enc.write_slice(&ip.octets())
write_Ip(code, ip) == Ok(<<code, 4>> \o ip)

\* write_IpList with the element size given as 1
write_IpList_size1(code, list) ==
    Ok(encode_long_opt_chunks(code, 1,
          [i \in 1..Len(list) |-> write_u32(ip_to_u32(list[i]))]))

write_IpList(code, list) ==
    Ok(encode_long_opt_chunks(code, 4,
          [i \in 1..Len(list) |-> write_u32(ip_to_u32(list[i]))]))

\* write_DomainList emitting each name into `enc` as soon as it is parsed
write_DomainList_eager(code, list) ==
    IF \E i \in 1..Len(list) : ~name_parse_ok(list[i])
    THEN LET bad == CHOOSE i \in 1..Len(list) :
                        /\ ~name_parse_ok(list[i])
                        /\ \A j \in 1..(i - 1) : name_parse_ok(list[j])
         IN  Err(Flatten([i \in 1..(bad - 1) |-> name_emit(list[i])]))
    ELSE Ok(encode_long_opt_bytes(code,
              Flatten([i \in 1..Len(list) |-> name_emit(list[i])])))

\* every name is parsed and emitted into a local buffer first; the first
\* name that does not parse returns the error before `enc` is touched
write_DomainList(code, list) ==
    IF \E i \in 1..Len(list) : ~name_parse_ok(list[i])
    THEN Err(<<>>)
    ELSE Ok(encode_long_opt_bytes(code,
              Flatten([i \in 1..Len(list) |-> name_emit(list[i])])))

\* write_Str as one record whose length byte is the length cast to u8
write_Str_unchunked(code, s) == Ok(<<code, Len(s) % 256>> \o s)

write_Str(code, s) == Ok(encode_long_opt_bytes(code, s))

write_U32(code, n) == Ok(<<code, 4>> \o write_u32(n))

write_I32(code, n) == Ok(<<code, 4>> \o write_i32(n))

write_U8(code, n) == Ok(<<code, 1, n>>)

write_Bool(code, b) == Ok(<<code, 1, IF b THEN 1 ELSE 0>>)

\* write_U16 in little-endian
write_U16_le(code, n) == Ok(<<code, 2, n % 256, n \div 256>>)

write_U16(code, n) == Ok(<<code, 2>> \o write_u16(n))

write_B64(code, s) ==
    IF b64_decode(s).ok
    THEN Ok(encode_long_opt_bytes(code, b64_decode(s).bytes))
    ELSE Err(<<>>)

write_Hex(code, s) ==
    IF hex_decode(s).ok
    THEN Ok(encode_long_opt_bytes(code, hex_decode(s).bytes))
    ELSE Err(<<>>)

\* the wrap-up of the SubOption arm: subs[i] is what write_opt returned for
\* the i-th sub-entry visited; sub_buf is local, so an error leaves `enc` as
\* it was
wrap_SubOption(code, subs) ==
    IF \E i \in 1..Len(subs) : ~subs[i].ok
    THEN Err(<<>>)
    ELSE Ok(encode_long_opt_bytes(code,
              Flatten([i \in 1..Len(subs) |-> subs[i].bytes])))

RECURSIVE write_opt(_, _, _)
write_opt(code, opt, r) ==
    CASE opt.type = "ip"          -> write_Ip(code, opt.value)
      [] opt.type = "ip_list"     -> write_IpList(code, opt.value)
      [] opt.type = "domain_list" -> write_DomainList(code, opt.value)
      [] opt.type = "str"         -> write_Str(code, opt.value)
      [] opt.type = "u32"         -> write_U32(code, opt.value)
      [] opt.type = "i32"         -> write_I32(code, opt.value)
      [] opt.type = "u8"          -> write_U8(code, opt.value)
      [] opt.type = "bool"        -> write_Bool(code, opt.value)
      [] opt.type = "u16"         -> write_U16(code, opt.value)
      [] opt.type = "b64"         -> write_B64(code, opt.value)
      [] opt.type = "hex"         -> write_Hex(code, opt.value)
      [] opt.type = "sub_option"  ->
            LET order == KeyOrder(DOMAIN opt.value, r)
            IN  wrap_SubOption(code,
                    [i \in 1..Len(order) |->
                        write_opt(order[i], opt.value[order[i]], r)])

(***************************************************************************)
(* The canonical decoder, DhcpOptions::decode of dhcproto.  A DhcpOption   *)
(* is [opt, val]: the shape of its variant (the groups to_opt matches on)  *)
(* and the typed value it carries.                                         *)
(***************************************************************************)
\* the option codes of the variants each arm of to_opt names (RFC 2132)
IpCodes == {1, 16, 28, 32, 50, 54, 118}
IpListCodes == {3, 4, 5, 6, 7, 8, 9, 10, 11, 41, 42, 44, 45, 48, 49}
I32Codes == {2}
U8Codes == {23, 37, 46, 52}
BoolCodes == {19, 20, 27, 29, 30, 31, 36, 39}
U32Codes == {35, 38, 51, 58, 59}
StrCodes == {12, 14, 15, 17, 18, 40, 47, 56}
U16Codes == {13, 22, 26, 57}
\* variants to_opt names in no arm and that carry their payload as raw
\* bytes: VendorExtensions, ClassIdentifier, ClientIdentifier
BytesCodes == {43, 60, 61}

VariantOf(code) ==
    CASE code \in IpCodes     -> "Ip"
      [] code \in IpListCodes -> "IpList"
      [] code \in I32Codes    -> "I32"
      [] code \in U8Codes     -> "U8"
      [] code \in BoolCodes   -> "Bool"
      [] code \in U32Codes    -> "U32"
      [] code \in StrCodes    -> "Str"
      [] code \in U16Codes    -> "U16"
      [] code \in BytesCodes  -> "Bytes"
      [] OTHER                -> "Unknown"

\* the record stream: Pad is skipped, End stops, anything else is
\* code, length, length bytes; a record cut short is a decode error
RECURSIVE ParseFrom(_, _)
ParseFrom(b, i) ==
    IF i > Len(b) THEN [ok |-> TRUE, recs |-> <<>>, end |-> 0]
    ELSE IF b[i] = EndCode THEN [ok |-> TRUE, recs |-> <<>>, end |-> i]
    ELSE IF b[i] = PadCode THEN ParseFrom(b, i + 1)
    ELSE IF i + 1 > Len(b) \/ i + 1 + b[i + 1] > Len(b)
         THEN [ok |-> FALSE, recs |-> <<>>, end |-> 0]
    ELSE LET r == ParseFrom(b, i + 2 + b[i + 1])
         IN  [r EXCEPT !.recs =
                <<[code |-> b[i], data |-> SubSeq(b, i + 2, i + 1 + b[i + 1])]>> \o @]

\* the payload of a code: its records' data concatenated in stream order
PayloadOf(recs, code) ==
    Flatten([i \in 1..Len(recs) |->
                IF recs[i].code = code THEN recs[i].data ELSE <<>>])

\* the typed value of a payload, or an error when it has not the variant's size
decode_inner(code, data) ==
    LET v == VariantOf(code)
        some(x) == [ok |-> TRUE, opt |-> [opt |-> v, val |-> x]]
        none == [ok |-> FALSE, opt |-> [opt |-> v, val |-> 0]]
    IN  CASE v = "Ip" ->
               IF Len(data) = 4 THEN some(data) ELSE none
          [] v = "U32" ->
               IF Len(data) = 4 THEN some(read_u32(data)) ELSE none
          [] v = "I32" ->
               IF Len(data) = 4 THEN some(read_i32(data)) ELSE none
          [] v = "U16" ->
               IF Len(data) = 2 THEN some(read_u16(data)) ELSE none
          [] v = "U8" ->
               IF Len(data) = 1 THEN some(data[1]) ELSE none
          [] v = "Bool" ->
               IF Len(data) = 1 THEN some(data[1] = 1) ELSE none
          [] v = "IpList" ->
               IF Len(data) % 4 = 0
               THEN some([k \in 1..(Len(data) \div 4) |->
                            u32_to_ip(read_u32(SubSeq(data, 4 * k - 3, 4 * k)))])
               ELSE none
          [] OTHER -> some(data)

DhcpOptions_decode(b) ==
    LET p     == ParseFrom(b, 1)
        codes == {p.recs[i].code : i \in 1..Len(p.recs)}
        typed == [c \in codes |-> decode_inner(c, PayloadOf(p.recs, c))]
    IN  IF p.ok /\ \A c \in codes : typed[c].ok
        THEN [ok |-> TRUE, opts |-> [c \in codes |-> typed[c].opt]]
        ELSE [ok |-> FALSE, opts |-> <<>>]

\* DhcpOption::to_vec of a raw-bytes variant: the option as it goes on the wire
to_vec(code, o) == encode_long_opt_bytes(code, o.val)

(***************************************************************************)
(* to_opt and Opts::serialize.                                             *)
(***************************************************************************)
Some(code, opt) == [some |-> TRUE, code |-> code, opt |-> opt]
None == [some |-> FALSE]

\* the `_` arm: to_vec, then the first two bytes sliced off
to_opt_fallback(code, o) ==
    LET data == to_vec(code, o)
    IN  Some(code, [type |-> "hex",
                    value |-> IF data = <<>> THEN <<>>
                              ELSE hex_encode(SubSeq(data, 3, Len(data)))])

\* to_opt with TimeOffset in the arm of the u32 variants
to_opt_offset_u32(code, o) ==
    CASE o.opt \in {"Pad", "End"} -> None
      [] o.opt = "Ip"      -> Some(code, [type |-> "ip", value |-> o.val])
      [] o.opt = "IpList"  -> Some(code, [type |-> "ip_list", value |-> o.val])
      [] o.opt = "U8"      -> Some(code, [type |-> "u8", value |-> o.val])
      [] o.opt = "Bool"    -> Some(code, [type |-> "bool", value |-> o.val])
      [] o.opt \in {"U32", "I32"} ->
                              Some(code, [type |-> "u32", value |-> o.val])
      [] o.opt = "Str"     -> Some(code, [type |-> "str", value |-> o.val])
      [] o.opt = "U16"     -> Some(code, [type |-> "u16", value |-> o.val])
      [] o.opt = "Unknown" ->
            Some(code, [type |-> "hex", value |-> hex_encode(o.val)])
      [] OTHER             -> to_opt_fallback(code, o)

to_opt(code, o) ==
    CASE o.opt \in {"Pad", "End"} -> None
      [] o.opt = "Ip"      -> Some(code, [type |-> "ip", value |-> o.val])
      [] o.opt = "IpList"  -> Some(code, [type |-> "ip_list", value |-> o.val])
      [] o.opt = "I32"     -> Some(code, [type |-> "i32", value |-> o.val])
      [] o.opt = "U8"      -> Some(code, [type |-> "u8", value |-> o.val])
      [] o.opt = "Bool"    -> Some(code, [type |-> "bool", value |-> o.val])
      [] o.opt = "U32"     -> Some(code, [type |-> "u32", value |-> o.val])
      [] o.opt = "Str"     -> Some(code, [type |-> "str", value |-> o.val])
      [] o.opt = "U16"     -> Some(code, [type |-> "u16", value |-> o.val])
      [] o.opt = "Unknown" ->
            Some(code, [type |-> "hex", value |-> hex_encode(o.val)])
      [] OTHER             -> to_opt_fallback(code, o)

\* filter_map(to_opt) collected into a HashMap
serialize(os) ==
    LET kept == {c \in DOMAIN os : to_opt(c, os[c]).some}
    IN  [c \in kept |-> to_opt(c, os[c]).opt]

(***************************************************************************)
(* The option maps the model loads.                                        *)
(***************************************************************************)
O(t, v) == [type |-> t, value |-> v]

\* n payload bytes, none of them 0 or 255
Bytes(n) == [i \in 1..n |-> ((i * 7) % 251) + 1]
\* n addresses counting up from 192.168.1.1
Ips(n) == [i \in 1..n |-> <<192, 168, 1 + (i \div 256), i % 256>>]
\* n base64 characters
B64Text(n) == [i \in 1..n |-> B64Alphabet[((i * 5) % 64) + 1]]

Label_example == <<101, 120, 97, 109, 112, 108, 101>>
Label_com == <<99, 111, 109>>
Label_org == <<111, 114, 103>>

FixedValues ==
    { O("ip", <<255, 255, 255, 0>>), O("ip", <<192, 168, 1, 1>>),
      O("u8", 0), O("u8", 255),
      O("u16", 258), O("u16", 65535),
      O("u32", <<258, 772>>), O("u32", <<65535, 65535>>),
      O("i32", -1), O("i32", (-2147483647) - 1), O("i32", 2147483647),
      O("i32", 3600),
      O("bool", TRUE), O("bool", FALSE) }

SubPlain == (1 :> O("u8", 1)) @@ (2 :> O("str", <<97, 98>>))
SubEnd == (1 :> O("u8", 7)) @@ (255 :> O("u8", 1))
SubPad == (0 :> O("u8", 3)) @@ (5 :> O("u16", 258))
SubBadHex == (1 :> O("u8", 1)) @@ (2 :> O("hex", <<"a", "b", "c">>))
SubDeepBad == (1 :> O("u8", 1)) @@ (2 :> O("sub_option", SubBadHex))
SubLong == (1 :> O("str", Bytes(200))) @@ (2 :> O("str", Bytes(100)))

ShortValues ==
    { O("ip_list", <<>>), O("ip_list", Ips(2)),
      O("str", <<>>), O("str", <<97, 98, 99>>),
      O("hex", <<>>), O("hex", <<"0", "a", "F", "F">>),
      O("b64", <<"A", "Q", "I", "D">>), O("b64", <<"A", "Q", "I">>),
      O("domain_list", << <<Label_example, Label_com>>, <<Label_example, Label_org>> >>),
      O("sub_option", SubPlain), O("sub_option", SubEnd), O("sub_option", SubPad) }

MalformedValues ==
    { O("hex", <<"a", "b", "c">>), O("hex", <<"z", "z">>),
      O("b64", <<"n","o","t","-","v","a","l","i","d","-","b","a","s","e","6","4","!">>),
      O("b64", <<"A">>), O("b64", <<"A", "R">>), O("b64", <<"A", "Q", "=", "=">>),
      O("domain_list", << <<Label_example, Label_com>>, <<Label_example, <<>>, Label_com>> >>),
      O("sub_option", SubBadHex), O("sub_option", SubDeepBad) }

IpsPerRecord == U8Max \div 4

LongValues ==
    { O("ip_list", Ips(1)), O("ip_list", Ips(IpsPerRecord)),
      O("ip_list", Ips(IpsPerRecord + 1)),
      O("ip_list", Ips(IpsPerRecord * MaxChunks + 1)),
      O("str", <<97>>), O("str", Bytes(U8Max)), O("str", Bytes(U8Max + 1)),
      O("str", Bytes(U8Max * MaxChunks + 1)),
      O("hex", hex_encode(Bytes(U8Max + 1))),
      O("hex", hex_encode(Bytes(U8Max * MaxChunks))),
      O("b64", B64Text(344)),
      O("domain_list", [i \in 1..(20 * MaxChunks) |-> <<Label_example, Label_com>>]),
      O("sub_option", SubLong) }

\* the shape a value of each kind decodes to under a code of that shape
KindVariant(t) ==
    CASE t = "ip" -> "Ip" [] t = "ip_list" -> "IpList" [] t = "i32" -> "I32"
      [] t = "u8" -> "U8" [] t = "bool" -> "Bool" [] t = "u32" -> "U32"
      [] t = "str" -> "Str" [] t = "u16" -> "U16" [] OTHER -> "none"

\* codes of the model: one of each shape, Pad and End
SampleCodes == {0, 1, 2, 3, 12, 13, 19, 23, 43, 51, 224, 255}

\* a code takes every value when its variant holds raw bytes, and the values
\* of its own kind otherwise
Fits(c, v) ==
    VariantOf(c) \in {"Bytes", "Unknown"} \/ VariantOf(c) = KindVariant(v.type)

SingleMaps(Values) ==
    {(c :> v) : <<c, v>> \in {e \in SampleCodes \X Values : Fits(e[1], e[2])}}

\* entries of the maps with several keys
EntryPool ==
    (1 :> O("ip", <<255, 255, 255, 0>>)) @@ (12 :> O("str", <<97, 98, 99>>)) @@
    (43 :> O("sub_option", SubPlain)) @@ (60 :> O("hex", <<"a", "b", "c">>)) @@
    (61 :> O("sub_option", SubDeepBad)) @@ (224 :> O("b64", <<"A", "Q", "I">>)) @@
    (255 :> O("u8", 1))

MultiMaps ==
    {[c \in K |-> EntryPool[c]] :
        K \in {K \in SUBSET DOMAIN EntryPool : Cardinality(K) \in 2..MaxEntries}}

\* the maps whose keys are codes of options: neither Pad nor End
OptionKeys(Maps) == {m \in Maps : DOMAIN m \cap {PadCode, EndCode} = {}}

ShortMaps == SingleMaps(FixedValues \cup ShortValues \cup MalformedValues) \cup MultiMaps
LongMaps == OptionKeys(SingleMaps(LongValues))

(***************************************************************************)
(* Opts::deserialize and Opts::serialize, step by step.                    *)
(***************************************************************************)
InitWith(Maps) ==
    /\ map \in Maps
    /\ pending = DOMAIN map
    /\ written = <<>>
    /\ buf = <<>>
    /\ phase = "encode"
    /\ opts = <<>>
    /\ out = <<>>
    /\ prev = <<>>
    /\ pass = 1
    /\ rev \in BOOLEAN

Init == InitWith(ShortMaps)
InitLong == InitWith(LongMaps)
InitMulti == InitWith(MultiMaps)
InitRound == InitWith(OptionKeys(ShortMaps) \cup LongMaps)

\* one turn of `for (code, opt) in map`: write_opt(&mut enc, code, opt)?
WriteEntry ==
    /\ phase = "encode"
    /\ \E code \in pending :
        LET r == write_opt(code, map[code], rev)
        IN  /\ buf' = buf \o r.bytes
            /\ written' = IF r.ok THEN Append(written, code) ELSE written
            /\ pending' = IF r.ok THEN pending \ {code} ELSE pending
            /\ phase' = IF r.ok THEN "encode" ELSE "failed"
    /\ UNCHANGED <<map, opts, out, prev, pass, rev>>

\* enc.write_u8(OptionCode::End.into())
WriteEnd ==
    /\ phase = "encode"
    /\ pending = {}
    /\ buf' = Append(buf, EndCode)
    /\ phase' = "terminated"
    /\ UNCHANGED <<map, pending, written, opts, out, prev, pass, rev>>

\* DhcpOptions::decode(&mut Decoder::new(&buf)).map_err(..)?
Decode ==
    /\ phase = "terminated"
    /\ LET d == DhcpOptions_decode(buf)
       IN  /\ opts' = d.opts
           /\ phase' = IF d.ok THEN "decoded" ELSE "decode_error"
    /\ UNCHANGED <<map, pending, written, buf, out, prev, pass, rev>>

\* Opts::serialize on the decoded options
Serialize ==
    /\ phase = "decoded"
    /\ out' = serialize(opts)
    /\ phase' = "serialized"
    /\ UNCHANGED <<map, pending, written, buf, opts, prev, pass, rev>>

\* the serialized map is loaded again: a new Opts::deserialize pass
Reload ==
    /\ phase = "serialized"
    /\ pass < MaxPasses
    /\ map' = out
    /\ pending' = DOMAIN out
    /\ written' = <<>>
    /\ buf' = <<>>
    /\ phase' = "encode"
    /\ prev' = opts
    /\ opts' = <<>>
    /\ out' = <<>>
    /\ pass' = pass + 1
    /\ UNCHANGED rev

Next == WriteEntry \/ WriteEnd \/ Decode \/ Serialize \/ Reload

Spec == Init /\ [][Next]_vars
SpecLong == InitLong /\ [][Next]_vars
SpecRound == InitRound /\ [][Next]_vars
SpecMulti == InitMulti /\ [][Next]_vars

(***************************************************************************)
(* The TLV grammar the properties are stated in: every record is a code    *)
(* byte, a length byte and that many payload bytes.                        *)
(***************************************************************************)
RECURSIVE RawFrom(_, _)
RawFrom(b, i) ==
    IF i > Len(b) THEN [ok |-> TRUE, recs |-> <<>>]
    ELSE IF i + 1 > Len(b) \/ i + 1 + b[i + 1] > Len(b)
         THEN [ok |-> FALSE, recs |-> <<>>]
    ELSE LET r == RawFrom(b, i + 2 + b[i + 1])
         IN  [r EXCEPT !.recs =
                <<[code |-> b[i], data |-> SubSeq(b, i + 2, i + 1 + b[i + 1])]>> \o @]

RawRecords(b) == RawFrom(b, 1)

Front(s) == SubSeq(s, 1, Len(s) - 1)
Last(s) == s[Len(s)]

FixedKinds == {"ip", "u8", "u16", "u32", "i32", "bool"}

\* the value bytes of a fixed-width value, most significant byte first
FixedBytes(v) ==
    CASE v.type = "u8"   -> <<v.value>>
      [] v.type = "bool" -> <<IF v.value THEN 1 ELSE 0>>
      [] v.type = "u16"  -> <<v.value \div 256, v.value % 256>>
      [] v.type = "u32"  -> <<v.value[1] \div 256, v.value[1] % 256,
                              v.value[2] \div 256, v.value[2] % 256>>
      [] v.type = "ip"   -> v.value
      [] v.type = "i32"  ->
            LET m == IF v.value < 0 THEN (v.value + 2147483647) + 1 ELSE v.value
            IN  <<(IF v.value < 0 THEN 128 ELSE 0) + (m \div 16777216),
                  (m \div 65536) % 256, (m \div 256) % 256, m % 256>>

MaskMap == 1 :> O("ip", <<255, 255, 255, 0>>)

\* C8: write_opt appends exactly code, width, value bytes (big-endian) for a
\* U8, Bool, U16, U32, I32 or Ip value and leaves the bytes before them as
\* they were; {1: Ip 255.255.255.0} assembles to 01 04 FF FF FF 00 FF and
\* decodes to the entry of code 1 with that address.
C8_FixedWidth ==
    /\ [][(/\ phase = "encode"
           /\ Len(written') = Len(written) + 1
           /\ map[Last(written')].type \in FixedKinds)
          => buf' = buf \o <<Last(written'), Len(FixedBytes(map[Last(written')]))>>
                        \o FixedBytes(map[Last(written')])]_vars
    /\ [](map = MaskMap /\ pass = 1 =>
            /\ phase = "terminated" => buf = <<1, 4, 255, 255, 255, 0, 255>>
            /\ phase # "decode_error"
            /\ phase = "decoded" =>
                 opts = (1 :> [opt |-> "Ip", val |-> <<255, 255, 255, 0>>]))
    /\ [](map = (2 :> O("i32", -1)) /\ phase = "terminated" =>
            buf = <<2, 4, 255, 255, 255, 255, 255>>)

C8_Witness ==
    /\ map = MaskMap /\ pass = 1 /\ phase = "decoded"
    /\ buf = <<1, 4, 255, 255, 255, 0, 255>>

(***************************************************************************)
(* Properties of a pass that loads a map of one entry.                     *)
(***************************************************************************)
OneEntry == Cardinality(DOMAIN map) = 1
TheCode == CHOOSE c \in DOMAIN map : TRUE
TheValue == map[TheCode]

Datas(recs) == Flatten([i \in 1..Len(recs) |-> recs[i].data])

\* the records write_opt emitted in a pass of one entry, seen once the End
\* code has been written
Emitted == RawRecords(Front(buf))

\* the octets of an address list, in order
ListOctets(list) == Flatten(list)

\* C6: an address list of n elements is written as consecutive records of
\* the same code, each with at most 255 payload bytes, whose payloads
\* concatenated are the n addresses in order; a list that fits in 255 bytes
\* takes one record, the list of 256 bytes takes exactly two, the second
\* holding the remainder.
C6_IpListChunks ==
    (phase = "terminated" /\ OneEntry /\ TheValue.type = "ip_list") =>
        LET n == Len(TheValue.value)
            r == Emitted
        IN  /\ r.ok
            /\ \A i \in 1..Len(r.recs) :
                  r.recs[i].code = TheCode /\ Len(r.recs[i].data) <= 255
            /\ Datas(r.recs) = ListOctets(TheValue.value)
            /\ (n >= 1 /\ 4 * n <= 255) => Len(r.recs) = 1
            /\ 4 * n = 256 =>
                  /\ Len(r.recs) = 2
                  /\ r.recs[2].data = SubSeq(ListOctets(TheValue.value),
                                             Len(r.recs[1].data) + 1, 4 * n)

C6_Witness ==
    /\ phase = "terminated" /\ OneEntry /\ TheValue.type = "ip_list"
    /\ 4 * Len(TheValue.value) = 256
    /\ Len(Emitted.recs) = 2

ChunkedKinds == {"ip_list", "domain_list", "str", "b64", "hex", "sub_option"}

\* the payload a well-formed value of a chunked kind stands for
PayloadBytes(v, r) ==
    CASE v.type = "str" -> v.value
      [] v.type = "hex" -> hex_decode(v.value).bytes
      [] v.type = "b64" -> b64_decode(v.value).bytes
      [] v.type = "ip_list" -> ListOctets(v.value)
      [] v.type = "domain_list" ->
            Flatten([i \in 1..Len(v.value) |-> name_emit(v.value[i])])
      [] v.type = "sub_option" ->
            LET order == KeyOrder(DOMAIN v.value, r)
            IN  Flatten([i \in 1..Len(order) |->
                    write_opt(order[i], v.value[order[i]], r).bytes])

\* the records of a value of a chunked kind: same code, at most 255 bytes
\* each, the payload in order
ChunkRecordsOk ==
    LET r == Emitted
    IN  /\ r.ok
        /\ \A i \in 1..Len(r.recs) :
              r.recs[i].code = TheCode /\ Len(r.recs[i].data) <= 255
        /\ Datas(r.recs) = PayloadBytes(TheValue, rev)

ChunkSizes == [i \in 1..Len(Emitted.recs) |-> Len(Emitted.recs[i].data)]

\* C9 as stated: the chunk records of a value are written in payload order
\* under the same code, each of at most 255 bytes, and their payload sizes
\* never decrease from one record to the next.
C9_Original ==
    (phase = "terminated" /\ OneEntry /\ TheValue.type \in ChunkedKinds) =>
        /\ ChunkRecordsOk
        /\ \A i \in 1..(Len(ChunkSizes) - 1) : ChunkSizes[i] <= ChunkSizes[i + 1]

\* C9 as amended: the chunk records of a value are written in payload order
\* under the same code, each of at most 255 bytes, and their payload sizes
\* never increase from one record to the next.
C9_ChunkOrder ==
    (phase = "terminated" /\ OneEntry /\ TheValue.type \in ChunkedKinds) =>
        /\ ChunkRecordsOk
        /\ \A i \in 1..(Len(ChunkSizes) - 1) : ChunkSizes[i] >= ChunkSizes[i + 1]

C9_Witness ==
    /\ phase = "terminated" /\ OneEntry /\ TheValue.type = "hex"
    /\ Len(Emitted.recs) = 2
    /\ Len(Emitted.recs[1].data) = 255
    /\ Len(Emitted.recs[2].data) = 1

(***************************************************************************)
(* Malformed payloads and the all-or-nothing pass.                         *)
(***************************************************************************)
RECURSIVE IsMalformed(_)
IsMalformed(v) ==
    CASE v.type = "hex" -> ~hex_decode(v.value).ok
      [] v.type = "b64" -> ~b64_decode(v.value).ok
      [] v.type = "domain_list" ->
            \E i \in 1..Len(v.value) : ~name_parse_ok(v.value[i])
      [] v.type = "sub_option" ->
            \E sc \in DOMAIN v.value : IsMalformed(v.value[sc])
      [] OTHER -> FALSE

BadCodes == {c \in DOMAIN map : IsMalformed(map[c])}
Codes(recs) == {recs[i].code : i \in 1..Len(recs)}
Range(s) == {s[i] : i \in 1..Len(s)}

\* C4: when an entry of the map, or of a nested sub-option map, has a
\* malformed payload, the pass ends with the error whatever the iteration
\* order: no option set is decoded or serialized, the failing entry stays
\* unwritten, and the buffer holds the bytes of the entries written before
\* it and not a byte of the failing entry.
C4_AllOrNothing ==
    /\ BadCodes # {} =>
          /\ phase \in {"encode", "failed"}
          /\ opts = <<>> /\ out = <<>>
          /\ BadCodes \subseteq pending
    /\ phase = "failed" =>
          /\ BadCodes \cap pending # {}
          /\ RawRecords(buf).ok
          /\ Codes(RawRecords(buf).recs) \subseteq Range(written)
          /\ buf = Flatten([i \in 1..Len(written) |->
                       write_opt(written[i], map[written[i]], rev).bytes])

C4_Witness ==
    /\ phase = "failed"
    /\ Len(written) >= 1
    /\ Len(buf) > 0
    /\ \E c \in pending : map[c].type = "sub_option" /\ IsMalformed(map[c])

(***************************************************************************)
(* Round trips.                                                            *)
(***************************************************************************)
ExplicitKinds ==
    {"ip", "ip_list", "domain_list", "u8", "u16", "u32", "i32", "bool", "str",
     "sub_option"}

\* C1 as stated: for every code and every value v of an explicitly
\* classified kind, the map {code: v} assembled and then normalized has at
\* code an entry of the kind of v with the payload of v.
C1_Original ==
    (pass = 1 /\ OneEntry /\ TheValue.type \in ExplicitKinds
        /\ ~IsMalformed(TheValue)) =>
        /\ phase \notin {"failed", "decode_error"}
        /\ phase = "serialized" =>
              /\ TheCode \in DOMAIN out
              /\ out[TheCode].type = TheValue.type
              /\ out[TheCode].value = TheValue.value

IsEmptyList(v) == v.type \in {"ip_list", "str"} /\ Len(v.value) = 0

\* C1 as amended: for every code whose canonical variant to_opt maps to the
\* kind K (ip, ip_list, u8, u16, u32, i32, bool, str) and every value v of
\* kind K, the map {code: v} assembled and then normalized is {code: v}
\* again, except that an empty address list or empty string writes no
\* record and comes back as the empty map.
C1_RoundTrip ==
    (pass = 1 /\ OneEntry /\ VariantOf(TheCode) = KindVariant(TheValue.type)) =>
        /\ phase \notin {"failed", "decode_error"}
        /\ phase = "serialized" =>
              out = IF IsEmptyList(TheValue) THEN <<>> ELSE map

C1_Witness ==
    /\ pass = 1 /\ phase = "serialized"
    /\ map = (3 :> O("ip_list", Ips(2)))
    /\ out = map

\* C2: normalization keeps every canonical entry that to_opt does not
\* classify (Unknown ones included) and renders it as the Hex value whose
\* text is the hex encoding of exactly the entry's payload bytes, whatever
\* the payload's length.
C2_FallbackHex ==
    phase = "serialized" =>
        \A c \in DOMAIN opts :
            opts[c].opt \in {"Bytes", "Unknown"} =>
                /\ c \in DOMAIN out
                /\ out[c].type = "hex"
                /\ out[c].value = hex_encode(opts[c].val)

\* C3: the option set decoded from the normalized map of an option set S is
\* S again.
C3_ReverseRoundTrip ==
    (pass >= 2 /\ phase \in {"failed", "decode_error", "decoded"}) =>
        /\ phase = "decoded"
        /\ opts = prev

(***************************************************************************)
(* The assembled stream.                                                   *)
(***************************************************************************)
\* the pass over the keys in ascending order
AssembleAscending(m, r) ==
    LET order == KeysAsc(DOMAIN m)
    IN  DhcpOptions_decode(
            Flatten([i \in 1..Len(order) |->
                        write_opt(order[i], m[order[i]], r).bytes])
            \o <<EndCode>>)

\* C5: the option set returned by the pass is the same for every iteration
\* order of the map, the terminator closes the buffer, and every key of the
\* map is in the returned set.
C5_OrderIndependent ==
    phase \in {"decoded", "decode_error"} =>
          /\ phase = "decoded"
          /\ Last(buf) = EndCode
          /\ DOMAIN opts = DOMAIN map
          /\ opts = AssembleAscending(map, rev).opts

\* C7: a SubOption value with two sub-entries is written as records of the
\* outer code whose concatenated payload, decoded as an option stream, has
\* no terminator and yields exactly the two sub-entries with their payloads.
C7_SubOptions ==
    (/\ phase = "encode" /\ pass = 1 /\ OneEntry /\ pending = {}
     /\ TheValue.type = "sub_option"
     /\ Cardinality(DOMAIN TheValue.value) = 2) =>
        LET outer  == RawRecords(buf)
            nested == ParseFrom(Datas(outer.recs), 1)
        IN  /\ outer.ok
            /\ Codes(outer.recs) = {TheCode}
            /\ nested.ok
            /\ nested.end = 0
            /\ Codes(nested.recs) = DOMAIN TheValue.value
            /\ \A sc \in DOMAIN TheValue.value :
                  PayloadOf(nested.recs, sc) =
                      Datas(RawRecords(write_opt(sc, TheValue.value[sc], rev).bytes).recs)

\* C10: for a map whose payloads are all well-formed, the buffer with the
\* terminator is the stream of the records written, read by the decoder as
\* exactly those records up to the terminator, and the decoder accepts it.
C10_DecoderAccepts ==
    /\ phase # "decode_error"
    /\ phase = "terminated" =>
          LET p == ParseFrom(buf, 1)
          IN  /\ p.ok
              /\ p.end = Len(buf)
              /\ p.recs = RawRecords(Front(buf)).recs

====
